---- MODULE Spec2Model ----
(* Lifecycle controller of the LocalStack container (localstack.go):         *)
(* Start / Stop / EndpointURL of a Stack, the background exit watcher that   *)
(* start() spawns, the readiness poll loop with its timeout, and the part of *)
(* the container runtime (Docker daemon) the controller talks to.            *)
EXTENDS Naturals, Sequences, FiniteSets, TLC

(* ------------------------------------------------------------------------ *)
(* Bounds of the model                                                       *)
(* ------------------------------------------------------------------------ *)
\* number of Start calls made during one run (each may create one container
\* and spawns at most one watcher)
MaxStartCalls == 2
\* the largest initTimeout (seconds) an option sets
MaxTimeout == 1
\* the longest one poll iteration takes beyond its sleep (the ContainerLogs
\* round trip, reading the log, oversleeping), in ticks
MaxLogDelay == 1
\* how many different container paths the volume mount options draw from
MaxMountPaths == 3

(* ------------------------------------------------------------------------ *)
(* Program constants                                                         *)
(* ------------------------------------------------------------------------ *)
FixedPort == "4566/tcp"
\* stop(): timeoutSeconds := 10
StopTimeoutSeconds == 10
\* one clock tick is one poll interval: time.Sleep(500 * time.Millisecond)
PollIntervalTicks == 1
\* time.Second expressed in ticks of 500 ms
TicksPerSecond == 2

Callers == {1, 2}
\* the host port the runtime publishes 4566/tcp of its k-th container on
HostPortOf(k) == IF k % 2 = 1 THEN "32768" ELSE "32769"

\* elapsed time is only compared with the timeout; it saturates here
ElapsedCap == MaxTimeout * TicksPerSecond + MaxLogDelay + PollIntervalTicks + 1
\* the values an option gives initTimeout; 0 is the default, no timeout
InitTimeouts == {0, MaxTimeout}

VARIABLES
    lock,          \* sync.RWMutex embedded in Stack: 0 = free, else the caller that holds it
    started,       \* Stack.started
    containerID,   \* Stack.containerID, 0 models ""
    pm,            \* Stack.pm: nat.PortMap, a function from a set of port specs to binding lists
    cli,           \* Stack.cli is set
    waitForInit,   \* Stack.waitForInit
    initTimeout,   \* Stack.initTimeout
    reuseExisting, \* Stack.reuseExisting
    initCompleteLogLine, \* Stack.initCompleteLogLine, "" when no option set it
    volumeMounts,  \* Stack.volumeMounts: map from container path to host path
    cancelled,     \* s.ctx.Done() is closed
    crashed,       \* the process died of an unrecovered panic
    rt,            \* the runtime's containers: the status of each, indexed by identifier
    watchers,      \* the goroutines spawned by start(): how many are at each position
    pc,            \* per caller: position in Start / Stop
    op,            \* per caller: the call in progress
    calls,         \* per caller: runtime-client calls issued by the call in progress
    res,           \* per caller: the value the call returns
    elapsed,       \* per caller: time.Since(start) in the poll loop, in ticks
    sawMarker,     \* per caller: a poll of the call in progress found the marker
    lastPoll,      \* per caller: what the initComplete() that just returned fetched and read
    pre,           \* per caller: what the call saw when it entered its body
    nStart,        \* Start calls made so far
    mounts,        \* HostConfig.Mounts of the last ContainerCreate: what getVolumeMounts() returned
    okSinceStop    \* a Start returned nil and no stop() ran since

stackVars == <<started, containerID, pm, cli, waitForInit, initTimeout, reuseExisting,
               initCompleteLogLine, volumeMounts>>
callerVars == <<pc, op, calls, res, elapsed, sawMarker, lastPoll, pre>>
vars == <<lock, stackVars, cancelled, crashed, rt, watchers, callerVars, nStart, mounts,
          okSinceStop>>

(* ------------------------------------------------------------------------ *)
(* Values                                                                    *)
(* ------------------------------------------------------------------------ *)
NoRes == [kind |-> "none", seconds |-> 0]
Nil == [kind |-> "nil", seconds |-> 0]
Err(k) == [kind |-> k, seconds |-> 0]
\* fmt.Errorf("localstack: init timeout exceeded (%d seconds)", s.initTimeout)
TimeoutErr(t) == [kind |-> "timeout", seconds |-> t]

Call(name, cid) == [name |-> name, cid |-> cid, timeout |-> 0]
StopCall(cid) == [name |-> "ContainerStop", cid |-> cid, timeout |-> StopTimeoutSeconds]

Binding(ip, port) == [HostIP |-> ip, HostPort |-> port]
\* nat.PortMap{}
EmptyPortMap == [p \in {} |-> <<>>]
\* s.pm[nat.Port(FixedPort)] = []nat.PortBinding{{HostIP: "0.0.0.0", HostPort: ""}}
PlaceholderPortMap == [p \in {FixedPort} |-> <<Binding("0.0.0.0", "")>>]
\* s.pm[nat.Port(FixedPort)] = []nat.PortBinding{{HostIP: "localhost", HostPort: bindings[0].HostPort}}
ResolvedPortMap_KeepsHostIP(bindings) ==
    [p \in {FixedPort} |-> <<Binding(bindings[1].HostIP, bindings[1].HostPort)>>]
ResolvedPortMap(bindings) == [p \in {FixedPort} |-> <<Binding("localhost", bindings[1].HostPort)>>]

\* Stack.EndpointURL
EndpointURL ==
    IF containerID # 0 /\ FixedPort \in DOMAIN pm
    THEN "http://" \o pm[FixedPort][1].HostIP \o ":" \o pm[FixedPort][1].HostPort
    ELSE ""

\* the guard of stop(): if !s.started || s.containerID == "" { return nil }
NothingToStop_NoContainer(st, cid) == cid = 0
NothingToStop(st, cid) == ~st \/ cid = 0

\* time.Since(start) > time.Duration(s.initTimeout)*time.Second, guarded by s.initTimeout > 0
TimedOut_NoSeconds(t, e) == t > 0 /\ e > 0
TimedOut(t, e) == t > 0 /\ e > t * TicksPerSecond

\* the clock is read only when initTimeout > 0 (the && short-circuits)
Advance(e, d) == IF initTimeout = 0 THEN e ELSE IF e + d > ElapsedCap THEN ElapsedCap ELSE e + d

\* the poll loop issues the same ContainerLogs call on every iteration; the
\* record of a call keeps one entry for a run of identical polls
Logged(cs, c) == IF Len(cs) > 0 /\ cs[Len(cs)] = c THEN cs ELSE Append(cs, c)

\* the marker an option sets as initCompleteLogLine; "" leaves the default
LogLines == {"", "Started."}
\* what the container may have written to stdout when a poll reads it, as lines
LogSnapshots == {<<>>, <<"Starting", "Ready.">>, <<"Starting", "Started.">>}
\* the options a Start is called with: each Start says whether to wait and
\* whether to reuse, and a Start that waits may give a timeout or a marker
StartOptions ==
    {o \in [wait : BOOLEAN, timeout : InitTimeouts, reuse : BOOLEAN, logLine : LogLines] :
        /\ ~o.wait => (o.timeout = 0 /\ o.logLine = "")
        /\ o.timeout = 0 \/ o.logLine = ""}
\* strings.Contains(string(logContent), logLineCheck), on lines; the empty
\* string is contained in every string
Contains(log, line) == line = "" \/ \E i \in 1..Len(log) : log[i] = line
\* logLineCheck := s.initCompleteLogLine; if logLineCheck == "" { logLineCheck = "Ready." }
LogLineCheck_NoDefault(line) == line
LogLineCheck(line) == IF line = "" THEN "Ready." ELSE line
\* what one initComplete() did: the outcome of ContainerLogs and io.ReadAll
\* ("fetch_err", "read_err", "read") and the log, when it was read to its end
Poll(st, log) == [status |-> st, log |-> log]
NoPoll == Poll("none", <<>>)

\* the container paths and host paths an option puts into volumeMounts
SocketPath == "/var/run/docker.sock"
ContainerPathList == <<SocketPath, "/etc/localstack/init", "/var/lib/localstack", "/tmp/data">>
ContainerPaths == {ContainerPathList[i] : i \in 1..(IF MaxMountPaths < 4 THEN MaxMountPaths ELSE 4)}
HostPaths == {"/home/init", "/home/state"}
VolumeMountMaps == UNION {[D -> HostPaths] : D \in SUBSET ContainerPaths}
Mount(src, tgt, ro) == [Type |-> "bind", Source |-> src, Target |-> tgt, ReadOnly |-> ro]
\* the orders in which range may visit the keys of a map
RangeOrders(D) ==
    {o \in [1..Cardinality(D) -> D] : \A i, j \in 1..Cardinality(D) : o[i] = o[j] => i = j}
\* Stack.getVolumeMounts, with the keys of s.volumeMounts visited in order o
getVolumeMounts_SocketReadOnly(vm, o) ==
    Append([i \in 1..Len(o) |-> Mount(vm[o[i]], o[i], TRUE)], Mount(SocketPath, SocketPath, TRUE))
getVolumeMounts(vm, o) ==
    Append([i \in 1..Len(o) |-> Mount(vm[o[i]], o[i], TRUE)], Mount(SocketPath, SocketPath, FALSE))

WatcherPCs == {"wait", "stop_call", "clear_id", "clear_started", "done"}
NumWatchers == watchers["wait"] + watchers["stop_call"]
               + watchers["clear_id"] + watchers["clear_started"] + watchers["done"]

Init ==
    /\ lock = 0
    /\ started = FALSE
    /\ containerID = 0
    /\ pm = EmptyPortMap
    /\ cli = FALSE
    /\ waitForInit = TRUE
    /\ initTimeout = 0
    /\ reuseExisting = FALSE
    /\ initCompleteLogLine = ""
    /\ volumeMounts = [p \in {} |-> ""]
    /\ cancelled = FALSE
    /\ crashed = FALSE
    /\ rt = <<>>
    /\ watchers = [p \in WatcherPCs |-> 0]
    /\ pc = [c \in Callers |-> "idle"]
    /\ op = [c \in Callers |-> [kind |-> "none", force |-> FALSE]]
    /\ calls = [c \in Callers |-> <<>>]
    /\ res = [c \in Callers |-> NoRes]
    /\ elapsed = [c \in Callers |-> 0]
    /\ sawMarker = [c \in Callers |-> FALSE]
    /\ lastPoll = [c \in Callers |-> NoPoll]
    /\ pre = [c \in Callers |-> [started |-> FALSE, cid |-> 0, ok |-> FALSE]]
    /\ nStart = 0
    /\ mounts = <<>>
    /\ okSinceStop = FALSE

(* ------------------------------------------------------------------------ *)
(* The container runtime                                                     *)
(* ------------------------------------------------------------------------ *)
\* s.ctx is not done: a runtime-client call that is given s.ctx (every call
\* of the start sequence; ContainerStop is given context.Background()) fails
\* once the context is cancelled
CtxLive == ~cancelled
\* the runtime knows the container; a call with the empty identifier fails
Known(cid) == cid \in 1..Len(rt)
\* what ContainerInspect may report for 4566/tcp of a container: its
\* published binding, or no binding at all
BindingLists(cid) == {<<>>, <<Binding("0.0.0.0", HostPortOf(cid))>>}

Goto(c, p) == pc' = [pc EXCEPT ![c] = p]
Return(c, r, p) == /\ res' = [res EXCEPT ![c] = r]
                   /\ pc' = [pc EXCEPT ![c] = p]
Issue(c, call) == calls' = [calls EXCEPT ![c] = Logged(@, call)]

(* ------------------------------------------------------------------------ *)
(* Callers: Start                                                            *)
(* ------------------------------------------------------------------------ *)
\* a caller calls Start(forceRestart, opts...)
BeginStart(c) ==
    /\ ~crashed /\ pc[c] = "idle" /\ nStart < MaxStartCalls
    /\ \E f \in BOOLEAN : op' = [op EXCEPT ![c] = [kind |-> "Start", force |-> f]]
    /\ Goto(c, "Start_lock")
    /\ calls' = [calls EXCEPT ![c] = <<>>]
    /\ res' = [res EXCEPT ![c] = NoRes]
    /\ elapsed' = [elapsed EXCEPT ![c] = 0]
    /\ sawMarker' = [sawMarker EXCEPT ![c] = FALSE]
    /\ nStart' = nStart + 1
    /\ UNCHANGED <<lock, stackVars, cancelled, crashed, rt, watchers, lastPoll, pre, mounts,
                   okSinceStop>>

\* Start: s.Lock()
StartLock(c) ==
    /\ ~crashed /\ pc[c] = "Start_lock"
    /\ lock = 0
    /\ lock' = c
    /\ Goto(c, "Start_check")
    /\ UNCHANGED <<stackVars, cancelled, crashed, rt, watchers, op, calls, res, elapsed,
                   sawMarker, lastPoll, pre, nStart, mounts, okSinceStop>>

\* Start: if s.started { if !forceRestart { return nil }; if err := s.Stop() ... }
StartCheck_AlwaysRun(c) ==
    /\ ~crashed /\ pc[c] = "Start_check"
    /\ pre' = [pre EXCEPT ![c] = [started |-> started, cid |-> containerID, ok |-> okSinceStop]]
    /\ Goto(c, "Start_opts")
    /\ UNCHANGED <<lock, stackVars, cancelled, crashed, rt, watchers, op, calls, res, elapsed,
                   sawMarker, lastPoll, nStart, mounts, okSinceStop>>
StartCheck(c) ==
    /\ ~crashed /\ pc[c] = "Start_check"
    /\ pre' = [pre EXCEPT ![c] = [started |-> started, cid |-> containerID, ok |-> okSinceStop]]
    /\ IF started
       THEN IF ~op[c].force
            THEN Return(c, Nil, "Start_ret") /\ okSinceStop' = TRUE
            ELSE Goto(c, "Stop_lock") /\ UNCHANGED <<res, okSinceStop>>
       ELSE Goto(c, "Start_opts") /\ UNCHANGED <<res, okSinceStop>>
    /\ UNCHANGED <<lock, stackVars, cancelled, crashed, rt, watchers, op, calls, elapsed,
                   sawMarker, lastPoll, nStart, mounts>>

\* Start: for _, opt := range opts { opt(s) }; client.NewClientWithOpts; s.cli = cli
StartInit(c) ==
    /\ ~crashed /\ pc[c] = "Start_opts"
    /\ \E o \in StartOptions :
          /\ waitForInit' = o.wait
          /\ initTimeout' = o.timeout
          /\ reuseExisting' = o.reuse
          /\ initCompleteLogLine' = o.logLine
    /\ UNCHANGED volumeMounts
    /\ \E ok \in BOOLEAN :
          IF ok
          THEN cli' = TRUE /\ Goto(c, "start_spawn") /\ UNCHANGED res
          ELSE UNCHANGED cli /\ Return(c, Err("client"), "Start_ret")
    /\ UNCHANGED <<lock, started, containerID, pm, cancelled, crashed, rt, watchers, op, calls,
                   elapsed, sawMarker, lastPoll, pre, nStart, mounts, okSinceStop>>

\* start(): go func() { <-s.ctx.Done(); ...; s.stop() }(), then the placeholder binding
StartSpawn(c) ==
    /\ ~crashed /\ pc[c] = "start_spawn"
    /\ watchers' = [watchers EXCEPT !["wait"] = @ + 1]
    /\ pm' = PlaceholderPortMap
    /\ Goto(c, "ensureImage")
    /\ UNCHANGED <<lock, started, containerID, cli, waitForInit, initTimeout, reuseExisting,
                   initCompleteLogLine, volumeMounts, cancelled, crashed, rt, op, calls, res,
                   elapsed, sawMarker, lastPoll, pre, nStart, mounts, okSinceStop>>

\* start(): s.ensureImage(LocalStackImage), the whole of ensureImage
EnsureImage_CreatesAfterPullError(c) ==
    /\ ~crashed /\ pc[c] = "ensureImage"
    /\ \E out \in {"present", "pulled", "list_err", "pull_err", "drain_err"} :
          /\ out \in {"present", "pulled"} => CtxLive
          /\ calls' = [calls EXCEPT ![c] =
                          IF out \in {"present", "list_err"}
                          THEN Logged(@, Call("ImageList", 0))
                          ELSE IF out = "pull_err"
                          THEN <<Call("ImageList", 0), Call("ImagePull", 0), Call("ContainerCreate", 0)>>
                          ELSE Logged(Logged(@, Call("ImageList", 0)), Call("ImagePull", 0))]
          /\ CASE out = "list_err" -> Return(c, Err("imagelist"), "Start_ret")
               [] out = "pull_err" -> Return(c, Err("imagepull"), "Start_ret")
               [] out = "drain_err" -> Return(c, Err("drain"), "Start_ret")
               [] OTHER -> Goto(c, "create") /\ UNCHANGED res
    /\ UNCHANGED <<lock, stackVars, cancelled, crashed, rt, watchers, op, elapsed, sawMarker,
                   lastPoll, pre, nStart, mounts, okSinceStop>>
EnsureImage(c) ==
    /\ ~crashed /\ pc[c] = "ensureImage"
    /\ \E out \in {"present", "pulled", "list_err", "pull_err", "drain_err"} :
          /\ out \in {"present", "pulled"} => CtxLive
          /\ calls' = [calls EXCEPT ![c] =
                          IF out \in {"present", "list_err"}
                          THEN Logged(@, Call("ImageList", 0))
                          ELSE Logged(Logged(@, Call("ImageList", 0)), Call("ImagePull", 0))]
          /\ CASE out = "list_err" -> Return(c, Err("imagelist"), "Start_ret")
               [] out = "pull_err" -> Return(c, Err("imagepull"), "Start_ret")
               [] out = "drain_err" -> Return(c, Err("drain"), "Start_ret")
               [] OTHER -> Goto(c, "create") /\ UNCHANGED res
    /\ UNCHANGED <<lock, stackVars, cancelled, crashed, rt, watchers, op, elapsed, sawMarker,
                   lastPoll, pre, nStart, mounts, okSinceStop>>

\* start(): s.cli.ContainerCreate(...), the name-collision branch, s.containerID = resp.ID
ContainerCreate(c) ==
    /\ ~crashed /\ pc[c] = "create"
    /\ Issue(c, Call("ContainerCreate", 0))
    /\ \E o \in RangeOrders(DOMAIN volumeMounts) : mounts' = getVolumeMounts(volumeMounts, o)
    /\ \E out \in {"ok", "name_in_use", "error"} :
          /\ out \in {"ok", "name_in_use"} => CtxLive
          /\ CASE out = "ok" ->
                     /\ rt' = Append(rt, "created")
                     /\ containerID' = Len(rt) + 1
                     /\ Goto(c, "cstart")
                     /\ UNCHANGED <<res, okSinceStop>>
               [] out = "name_in_use" /\ reuseExisting ->
                     /\ Return(c, Nil, "Start_ret")
                     /\ okSinceStop' = TRUE
                     /\ UNCHANGED <<rt, containerID>>
               [] OTHER ->
                     /\ Return(c, Err("create"), "Start_ret")
                     /\ UNCHANGED <<rt, containerID, okSinceStop>>
    /\ UNCHANGED <<lock, started, pm, cli, waitForInit, initTimeout, reuseExisting,
                   initCompleteLogLine, volumeMounts, cancelled, crashed, watchers, op, elapsed,
                   sawMarker, lastPoll, pre, nStart>>

\* start(): s.cli.ContainerStart(s.ctx, s.containerID, ...); start := time.Now(); if s.waitForInit
ContainerStart(c) ==
    /\ ~crashed /\ pc[c] = "cstart"
    /\ Issue(c, Call("ContainerStart", containerID))
    /\ \E ok \in BOOLEAN :
          IF ok /\ CtxLive /\ Known(containerID)
          THEN /\ rt' = [rt EXCEPT ![containerID] = "running"]
               /\ Goto(c, IF waitForInit THEN "poll_check" ELSE "inspect")
               /\ UNCHANGED res
          ELSE /\ Return(c, Err("start"), "Start_ret")
               /\ UNCHANGED rt
    /\ elapsed' = [elapsed EXCEPT ![c] = 0]
    /\ UNCHANGED <<lock, stackVars, cancelled, crashed, watchers, op, sawMarker, lastPoll, pre,
                   nStart, mounts, okSinceStop>>

\* the top of the poll loop: the timeout test
PollCheck(c) ==
    /\ ~crashed /\ pc[c] = "poll_check"
    /\ IF TimedOut(initTimeout, elapsed[c])
       THEN Return(c, TimeoutErr(initTimeout), "Start_ret")
       ELSE Goto(c, "poll_init") /\ UNCHANGED res
    /\ UNCHANGED <<lock, stackVars, cancelled, crashed, rt, watchers, op, calls, elapsed,
                   sawMarker, lastPoll, pre, nStart, mounts, okSinceStop>>

\* if s.initComplete() { break }: the whole of initComplete, which takes d ticks
InitComplete_FetchErrorFatal(c) ==
    /\ ~crashed /\ pc[c] = "poll_init"
    /\ Issue(c, Call("ContainerLogs", containerID))
    /\ \E st \in {"fetch_err", "read_err", "read"}, log \in LogSnapshots :
          /\ st = "fetch_err" \/ (CtxLive /\ Known(containerID))
          /\ st # "read" => log = <<>>
          /\ lastPoll' = [lastPoll EXCEPT ![c] = Poll(st, log)]
          /\ IF st = "read" /\ Contains(log, LogLineCheck(initCompleteLogLine))
             THEN /\ Goto(c, "inspect")
                  /\ sawMarker' = [sawMarker EXCEPT ![c] = TRUE]
                  /\ elapsed' = [elapsed EXCEPT ![c] = 0]
                  /\ UNCHANGED res
             ELSE /\ IF st = "fetch_err"
                     THEN Return(c, Err("logs"), "Start_ret")
                     ELSE Goto(c, "poll_sleep") /\ UNCHANGED res
                  /\ UNCHANGED sawMarker
                  /\ \E d \in 0..MaxLogDelay : elapsed' = [elapsed EXCEPT ![c] = Advance(@, d)]
    /\ UNCHANGED <<lock, stackVars, cancelled, crashed, rt, watchers, op, pre,
                   nStart, mounts, okSinceStop>>
InitComplete(c) ==
    /\ ~crashed /\ pc[c] = "poll_init"
    /\ Issue(c, Call("ContainerLogs", containerID))
    /\ \E st \in {"fetch_err", "read_err", "read"}, log \in LogSnapshots :
          /\ st = "fetch_err" \/ (CtxLive /\ Known(containerID))
          /\ st # "read" => log = <<>>
          /\ lastPoll' = [lastPoll EXCEPT ![c] = Poll(st, log)]
          /\ IF st = "read" /\ Contains(log, LogLineCheck(initCompleteLogLine))
             THEN \* break: time.Since(start) is not read again
                  /\ Goto(c, "inspect")
                  /\ sawMarker' = [sawMarker EXCEPT ![c] = TRUE]
                  /\ elapsed' = [elapsed EXCEPT ![c] = 0]
             ELSE /\ Goto(c, "poll_sleep")
                  /\ UNCHANGED sawMarker
                  /\ \E d \in 0..MaxLogDelay : elapsed' = [elapsed EXCEPT ![c] = Advance(@, d)]
    /\ UNCHANGED <<lock, stackVars, cancelled, crashed, rt, watchers, op, res, pre,
                   nStart, mounts, okSinceStop>>

\* time.Sleep(500 * time.Millisecond)
PollSleep(c) ==
    /\ ~crashed /\ pc[c] = "poll_sleep"
    /\ elapsed' = [elapsed EXCEPT ![c] = Advance(@, PollIntervalTicks)]
    /\ Goto(c, "poll_check")
    /\ lastPoll' = [lastPoll EXCEPT ![c] = NoPoll]
    /\ UNCHANGED <<lock, stackVars, cancelled, crashed, rt, watchers, op, calls, res, sawMarker,
                   pre, nStart, mounts, okSinceStop>>

\* start(): ContainerInspect, bindings[0], the resolved binding
Inspect(c) ==
    /\ ~crashed /\ pc[c] = "inspect"
    /\ Issue(c, Call("ContainerInspect", containerID))
    /\ \E ok \in BOOLEAN :
          IF ok /\ CtxLive /\ Known(containerID)
          THEN \E bs \in BindingLists(containerID) :
                  /\ IF bs = <<>>
                     THEN \* bindings[0] on an empty slice: index out of range, the process dies
                          crashed' = TRUE /\ Goto(c, "panic") /\ UNCHANGED <<pm, res>>
                     ELSE /\ pm' = ResolvedPortMap(bs)
                          /\ Goto(c, "set_started")
                          /\ UNCHANGED <<crashed, res>>
          ELSE /\ Return(c, Err("inspect"), "Start_ret")
               /\ UNCHANGED <<pm, crashed>>
    /\ lastPoll' = [lastPoll EXCEPT ![c] = NoPoll]
    /\ UNCHANGED <<lock, started, containerID, cli, waitForInit, initTimeout, reuseExisting,
                   initCompleteLogLine, volumeMounts, cancelled, rt, watchers, op, elapsed,
                   sawMarker, pre, nStart, mounts, okSinceStop>>

\* start(): s.started = true; return nil
SetStarted(c) ==
    /\ ~crashed /\ pc[c] = "set_started"
    /\ started' = TRUE
    /\ Return(c, Nil, "Start_ret")
    /\ okSinceStop' = TRUE
    /\ UNCHANGED <<lock, containerID, pm, cli, waitForInit, initTimeout, reuseExisting,
                   initCompleteLogLine, volumeMounts, cancelled, crashed, rt, watchers, op,
                   calls, elapsed, sawMarker, lastPoll, pre, nStart, mounts>>

\* the caller has its result and the call is over: its locals are gone
Forget(c) ==
    /\ op' = [op EXCEPT ![c] = [kind |-> "none", force |-> FALSE]]
    /\ calls' = [calls EXCEPT ![c] = <<>>]
    /\ res' = [res EXCEPT ![c] = NoRes]
    /\ elapsed' = [elapsed EXCEPT ![c] = 0]
    /\ sawMarker' = [sawMarker EXCEPT ![c] = FALSE]
    /\ lastPoll' = [lastPoll EXCEPT ![c] = NoPoll]
    /\ pre' = [pre EXCEPT ![c] = [started |-> FALSE, cid |-> 0, ok |-> FALSE]]

\* Start: defer s.Unlock(); unlocking a mutex that is not locked is a fatal error
StartRet(c) ==
    /\ ~crashed /\ pc[c] = "Start_ret"
    /\ IF lock = c
       THEN lock' = 0 /\ Goto(c, "idle") /\ Forget(c) /\ UNCHANGED crashed
       ELSE crashed' = TRUE /\ UNCHANGED <<lock, callerVars>>
    /\ UNCHANGED <<stackVars, cancelled, rt, watchers, nStart, mounts, okSinceStop>>

(* ------------------------------------------------------------------------ *)
(* Callers: Stop (also the s.Stop() that Start calls for a forced restart)   *)
(* ------------------------------------------------------------------------ *)
\* a caller calls Stop()
BeginStop(c) ==
    /\ ~crashed /\ pc[c] = "idle"
    /\ op' = [op EXCEPT ![c] = [kind |-> "Stop", force |-> FALSE]]
    /\ Goto(c, "Stop_lock")
    /\ calls' = [calls EXCEPT ![c] = <<>>]
    /\ res' = [res EXCEPT ![c] = NoRes]
    /\ UNCHANGED <<lock, stackVars, cancelled, crashed, rt, watchers, elapsed, sawMarker,
                   lastPoll, pre, nStart, mounts, okSinceStop>>

\* Stop: s.Lock(); the lock is not re-entrant, so the holder itself waits here too
StopLock_NoLock(c) ==
    /\ ~crashed /\ pc[c] = "Stop_lock"
    /\ Goto(c, "stop_check")
    /\ UNCHANGED <<lock, stackVars, cancelled, crashed, rt, watchers, op, calls, res, elapsed,
                   sawMarker, lastPoll, pre, nStart, mounts, okSinceStop>>
StopLock(c) ==
    /\ ~crashed /\ pc[c] = "Stop_lock"
    /\ lock = 0
    /\ lock' = c
    /\ Goto(c, "stop_check")
    /\ UNCHANGED <<stackVars, cancelled, crashed, rt, watchers, op, calls, res, elapsed,
                   sawMarker, lastPoll, pre, nStart, mounts, okSinceStop>>

\* stop(): if !s.started || s.containerID == "" { return nil }
StopCheck(c) ==
    /\ ~crashed /\ pc[c] = "stop_check"
    /\ pre' = [pre EXCEPT ![c] = [started |-> started, cid |-> containerID, ok |-> okSinceStop]]
    /\ okSinceStop' = FALSE
    /\ IF NothingToStop(started, containerID)
       THEN Return(c, Nil, "Stop_ret")
       ELSE Goto(c, "stop_call") /\ UNCHANGED res
    /\ UNCHANGED <<lock, stackVars, cancelled, crashed, rt, watchers, op, calls, elapsed,
                   sawMarker, lastPoll, nStart, mounts>>

\* stop(): s.cli.ContainerStop(context.Background(), s.containerID, {Timeout: &timeoutSeconds})
StopRequest_ClearsOnFailure(c) ==
    /\ ~crashed /\ pc[c] = "stop_call"
    /\ Issue(c, StopCall(containerID))
    /\ \E ok \in BOOLEAN :
          IF ok /\ Known(containerID)
          THEN rt' = [rt EXCEPT ![containerID] = "stopped"]
          ELSE UNCHANGED rt
    /\ Goto(c, "stop_clear_id")
    /\ UNCHANGED <<lock, stackVars, cancelled, crashed, watchers, op, res, elapsed,
                   sawMarker, lastPoll, pre, nStart, mounts, okSinceStop>>
StopRequest(c) ==
    /\ ~crashed /\ pc[c] = "stop_call"
    /\ Issue(c, StopCall(containerID))
    /\ \E ok \in BOOLEAN :
          IF ok /\ Known(containerID)
          THEN /\ rt' = [rt EXCEPT ![containerID] = "stopped"]
               /\ Goto(c, "stop_clear_id")
               /\ UNCHANGED res
          ELSE /\ Return(c, Err("stop"), "Stop_ret")
               /\ UNCHANGED rt
    /\ UNCHANGED <<lock, stackVars, cancelled, crashed, watchers, op, elapsed, sawMarker,
                   lastPoll, pre, nStart, mounts, okSinceStop>>

\* stop(): s.containerID = ""
StopClearID(c) ==
    /\ ~crashed /\ pc[c] = "stop_clear_id"
    /\ containerID' = 0
    /\ Goto(c, "stop_clear_started")
    /\ UNCHANGED <<lock, started, pm, cli, waitForInit, initTimeout, reuseExisting,
                   initCompleteLogLine, volumeMounts, cancelled, crashed, rt, watchers, op,
                   calls, res, elapsed, sawMarker, lastPoll, pre, nStart, mounts, okSinceStop>>

\* stop(): s.started = false; return nil
StopClearStarted(c) ==
    /\ ~crashed /\ pc[c] = "stop_clear_started"
    /\ started' = FALSE
    /\ Return(c, Nil, "Stop_ret")
    /\ UNCHANGED <<lock, containerID, pm, cli, waitForInit, initTimeout, reuseExisting,
                   initCompleteLogLine, volumeMounts, cancelled, crashed, rt, watchers, op,
                   calls, elapsed, sawMarker, lastPoll, pre, nStart, mounts, okSinceStop>>

\* Stop: defer s.Unlock(); a Stop called from Start hands its result back to Start
StopRet(c) ==
    /\ ~crashed /\ pc[c] = "Stop_ret"
    /\ IF lock = c
       THEN /\ lock' = 0
            /\ UNCHANGED crashed
            /\ IF op[c].kind = "Stop"
               THEN Goto(c, "idle") /\ Forget(c)
               ELSE /\ IF res[c] = Nil
                       THEN Return(c, NoRes, "Start_opts")
                       ELSE Goto(c, "Start_ret") /\ UNCHANGED res
                    /\ UNCHANGED <<op, calls, elapsed, sawMarker, lastPoll, pre>>
       ELSE crashed' = TRUE /\ UNCHANGED <<lock, callerVars>>
    /\ UNCHANGED <<stackVars, cancelled, rt, watchers, nStart, mounts, okSinceStop>>

(* ------------------------------------------------------------------------ *)
(* The cancellation signal and the watchers                                  *)
(* ------------------------------------------------------------------------ *)
\* the context the Stack was given is cancelled
Cancel ==
    /\ ~crashed /\ ~cancelled
    /\ cancelled' = TRUE
    /\ UNCHANGED <<lock, stackVars, crashed, rt, watchers, callerVars, nStart, mounts,
                   okSinceStop>>

\* one watcher moves from position p to position q
WMove(p, q) == /\ watchers[p] > 0
               /\ watchers' = [watchers EXCEPT ![p] = @ - 1, ![q] = @ + 1]

\* go func(): <-s.ctx.Done(); fmt.Printf(...); then stop() without s.Lock():
\* if !s.started || s.containerID == "" { return nil }
WatcherStopCheck ==
    /\ ~crashed /\ cancelled
    /\ okSinceStop' = FALSE
    /\ WMove("wait", IF NothingToStop(started, containerID) THEN "done" ELSE "stop_call")
    /\ UNCHANGED <<lock, stackVars, cancelled, crashed, rt, callerVars, nStart, mounts>>

\* stop() in the watcher: ContainerStop; on failure the watcher panics
WatcherStopRequest ==
    /\ ~crashed /\ watchers["stop_call"] > 0
    /\ \E ok \in BOOLEAN :
          IF ok /\ Known(containerID)
          THEN /\ rt' = [rt EXCEPT ![containerID] = "stopped"]
               /\ WMove("stop_call", "clear_id")
               /\ UNCHANGED crashed
          ELSE /\ crashed' = TRUE
               /\ UNCHANGED <<rt, watchers>>
    /\ okSinceStop' = FALSE
    /\ UNCHANGED <<lock, stackVars, cancelled, callerVars, nStart, mounts>>

\* stop() in the watcher: s.containerID = ""
WatcherClearID ==
    /\ ~crashed
    /\ containerID' = 0
    /\ WMove("clear_id", "clear_started")
    /\ okSinceStop' = FALSE
    /\ UNCHANGED <<lock, started, pm, cli, waitForInit, initTimeout, reuseExisting,
                   initCompleteLogLine, volumeMounts, cancelled, crashed, rt, callerVars,
                   nStart, mounts>>

\* stop() in the watcher: s.started = false; return nil
WatcherClearStarted ==
    /\ ~crashed
    /\ started' = FALSE
    /\ WMove("clear_started", "done")
    /\ okSinceStop' = FALSE
    /\ UNCHANGED <<lock, containerID, pm, cli, waitForInit, initTimeout, reuseExisting,
                   initCompleteLogLine, volumeMounts, cancelled, crashed, rt, callerVars,
                   nStart, mounts>>

Next ==
    \/ \E c \in Callers : BeginStart(c)
    \/ \E c \in Callers : StartLock(c)
    \/ \E c \in Callers : StartCheck(c)
    \/ \E c \in Callers : StartInit(c)
    \/ \E c \in Callers : StartSpawn(c)
    \/ \E c \in Callers : EnsureImage(c)
    \/ \E c \in Callers : ContainerCreate(c)
    \/ \E c \in Callers : ContainerStart(c)
    \/ \E c \in Callers : PollCheck(c)
    \/ \E c \in Callers : InitComplete(c)
    \/ \E c \in Callers : PollSleep(c)
    \/ \E c \in Callers : Inspect(c)
    \/ \E c \in Callers : SetStarted(c)
    \/ \E c \in Callers : StartRet(c)
    \/ \E c \in Callers : BeginStop(c)
    \/ \E c \in Callers : StopLock(c)
    \/ \E c \in Callers : StopCheck(c)
    \/ \E c \in Callers : StopRequest(c)
    \/ \E c \in Callers : StopClearID(c)
    \/ \E c \in Callers : StopClearStarted(c)
    \/ \E c \in Callers : StopRet(c)
    \/ Cancel
    \/ WatcherStopCheck
    \/ WatcherStopRequest
    \/ WatcherClearID
    \/ WatcherClearStarted

Spec == Init /\ [][Next]_vars

(* ------------------------------------------------------------------------ *)
(* getVolumeMounts on its own: a Stack whose options put any of the bounded  *)
(* maps into volumeMounts, and the call that builds the mount list from it   *)
(* ------------------------------------------------------------------------ *)
InitMounts ==
    /\ volumeMounts \in VolumeMountMaps
    /\ lock = 0 /\ started = FALSE /\ containerID = 0 /\ pm = EmptyPortMap /\ cli = FALSE
    /\ waitForInit = TRUE /\ initTimeout = 0 /\ reuseExisting = FALSE
    /\ initCompleteLogLine = "" /\ cancelled = FALSE /\ crashed = FALSE /\ rt = <<>>
    /\ watchers = [p \in WatcherPCs |-> 0]
    /\ pc = [c \in Callers |-> "idle"]
    /\ op = [c \in Callers |-> [kind |-> "none", force |-> FALSE]]
    /\ calls = [c \in Callers |-> <<>>]
    /\ res = [c \in Callers |-> NoRes]
    /\ elapsed = [c \in Callers |-> 0]
    /\ sawMarker = [c \in Callers |-> FALSE]
    /\ lastPoll = [c \in Callers |-> NoPoll]
    /\ pre = [c \in Callers |-> [started |-> FALSE, cid |-> 0, ok |-> FALSE]]
    /\ nStart = 0 /\ mounts = <<>> /\ okSinceStop = FALSE

\* s.getVolumeMounts() is called
GetVolumeMounts ==
    /\ \E o \in RangeOrders(DOMAIN volumeMounts) : mounts' = getVolumeMounts(volumeMounts, o)
    /\ UNCHANGED <<lock, stackVars, cancelled, crashed, rt, watchers, callerVars, nStart,
                   okSinceStop>>

NextMounts == GetVolumeMounts

SpecMounts == InitMounts /\ [][NextMounts]_vars

TypeOK ==
    /\ lock \in {0} \cup Callers
    /\ started \in BOOLEAN
    /\ containerID \in 0..MaxStartCalls
    /\ Len(rt) <= MaxStartCalls
    /\ NumWatchers <= MaxStartCalls

(* ------------------------------------------------------------------------ *)
(* Properties                                                                *)
(* ------------------------------------------------------------------------ *)
\* the caller is inside the body of Start or Stop (past s.Lock(), before the
\* deferred s.Unlock()); a Start that calls s.Stop() is still inside Start
InBody(c) ==
    /\ pc[c] \notin {"idle", "Start_lock"}
    /\ ~(pc[c] = "Stop_lock" /\ op[c].kind = "Stop")
\* a watcher is between the guard of stop() and its return
WatcherInStop == watchers["stop_call"] + watchers["clear_id"] + watchers["clear_started"] > 0
\* the caller takes a step
Steps(c) == pc'[c] # pc[c]
\* the last runtime call the caller issued
LastCall(c) == calls[c][Len(calls[c])]
\* the caller's Start ran the start sequence to its end
FullStart(c) ==
    /\ op[c].kind = "Start" /\ pc[c] = "Start_ret" /\ res[c] = Nil
    /\ Len(calls[c]) > 0 /\ LastCall(c).name = "ContainerInspect"

\* C1 (as stated): whenever a Start returned success and no stop() ran since,
\* a Start(false) returns success without any runtime-client call.
C1_IdempotentAfterSuccess ==
    \A c \in Callers :
        (pc[c] = "Start_ret" /\ op[c].kind = "Start" /\ ~op[c].force /\ pre[c].ok)
            => (res[c] = Nil /\ calls[c] = <<>>)

\* C1 (amended): a Start(false) that finds started true returns nil in that
\* one step, has issued no runtime-client call, and writes neither started,
\* containerID, the port map nor anything in the runtime.
C1_IdempotentWhenStarted ==
    [][\A c \in Callers :
          (pc[c] = "Start_check" /\ Steps(c) /\ started /\ ~op[c].force)
              => /\ pc'[c] = "Start_ret"
                 /\ res'[c] = Nil
                 /\ calls'[c] = <<>>
                 /\ UNCHANGED <<started, containerID, pm, rt, watchers>>]_vars

\* a Start(false) on a started Stack has returned nil with no call issued
C1_Witness ==
    \E c \in Callers :
        /\ pc[c] = "Start_ret" /\ op[c].kind = "Start" /\ ~op[c].force
        /\ pre[c].started /\ started /\ res[c] = Nil /\ calls[c] = <<>>

\* C2: a Start(true) on a started Stack gets to issue its stop request: at the
\* s.Lock() of the Stop it calls, it is not waiting for a lock it holds itself.
C2_ForcedRestartProceeds ==
    \A c \in Callers :
        (op[c].kind = "Start" /\ op[c].force /\ pre[c].started /\ pc[c] = "Stop_lock")
            => lock # c

\* C3: whenever nobody holds the lock (no Start or Stop is inside its body),
\* started implies a non-empty containerID and the resolved binding
\* localhost:<inspected port> under 4566/tcp.
C3_StartedImpliesOwned ==
    (~crashed /\ lock = 0 /\ started)
        => /\ containerID # 0
           /\ pm = [p \in {FixedPort} |-> <<Binding("localhost", HostPortOf(containerID))>>]

\* C4: a Stop that found something to stop issues exactly one ContainerStop
\* with the 10 second timeout; if the request fails it returns the error and
\* writes neither started nor containerID; it writes them only after the
\* request succeeded, and then returns nil with both cleared.
C4_StopOutcome ==
    [][\A c \in Callers :
          (op[c].kind = "Stop" /\ Steps(c)) =>
              /\ pc[c] = "stop_call" =>
                    /\ calls'[c] = <<[name |-> "ContainerStop", cid |-> containerID, timeout |-> 10]>>
                    /\ UNCHANGED <<started, containerID>>
                    /\ \/ pc'[c] = "stop_clear_id" /\ rt'[containerID] = "stopped"
                       \/ pc'[c] = "Stop_ret" /\ res'[c] = Err("stop") /\ rt' = rt
              /\ pc[c] \notin {"stop_clear_id", "stop_clear_started"} =>
                    UNCHANGED <<started, containerID>>
              /\ (pc'[c] = "Stop_ret" /\ pc[c] = "stop_clear_started") =>
                    /\ res'[c] = Nil /\ ~started' /\ containerID' = 0
                    /\ calls'[c] = calls[c] /\ Len(calls[c]) = 1]_vars

\* a Stop on a started Stack has failed and the Stack is still started with
\* the same container
C4_Witness ==
    \E c \in Callers :
        /\ pc[c] = "Stop_ret" /\ op[c].kind = "Stop" /\ res[c] = Err("stop")
        /\ pre[c].started /\ started /\ containerID = pre[c].cid /\ containerID # 0

\* C5: a Stop that finds started false or containerID empty returns nil in
\* that one step, has issued no runtime-client call and changes no field of
\* the Stack and nothing in the runtime.
C5_StopNoop ==
    [][\A c \in Callers :
          (op[c].kind = "Stop" /\ pc[c] = "stop_check" /\ Steps(c)
              /\ (~started \/ containerID = 0))
              => /\ pc'[c] = "Stop_ret"
                 /\ res'[c] = Nil
                 /\ calls'[c] = <<>>
                 /\ UNCHANGED <<stackVars, rt, watchers>>]_vars

\* a Stop has returned nil without a call on a Stack that is not started but
\* still names a container
C5_Witness ==
    \E c \in Callers :
        /\ pc[c] = "Stop_ret" /\ op[c].kind = "Stop" /\ res[c] = Nil /\ calls[c] = <<>>
        /\ ~started /\ containerID # 0

\* C6: a caller inside the body of Start or Stop holds the lock, so at most
\* one caller is inside a body at any time and the bodies run one after
\* another.
C6_MutualExclusion ==
    /\ \A c \in Callers : InBody(c) => lock = c
    /\ \A c, d \in Callers : (InBody(c) /\ InBody(d)) => c = d

\* one caller is inside Start while the other waits at the s.Lock() of Stop
C6_Witness ==
    \E c, d \in Callers :
        /\ c # d /\ op[c].kind = "Start" /\ pc[c] = "poll_sleep"
        /\ op[d].kind = "Stop" /\ pc[d] = "Stop_lock"

\* C7: a watcher is inside stop() only while no caller is inside Start or
\* Stop (it would hold the lock the caller needs).
C7_WatcherExcluded ==
    WatcherInStop => \A c \in Callers : ~InBody(c)

\* C8: when a Start returns nil from the end of the start sequence and no
\* step of a stop() was taken since it set started, EndpointURL() is
\* http://localhost:<port inspection reported for the container it created>.
C8_EndpointAfterStart ==
    \A c \in Callers :
        (FullStart(c) /\ okSinceStop)
            => EndpointURL = "http://localhost:" \o HostPortOf(LastCall(c).cid)

\* after a stop and a new start, the second Start has returned nil and the
\* endpoint is that of the second container
C8_Witness ==
    \E c \in Callers :
        /\ FullStart(c) /\ okSinceStop /\ started /\ containerID = 2
        /\ rt = <<"stopped", "running">>
        /\ EndpointURL = "http://localhost:32769"

\* C9: while no Start or Stop is in progress and the port map holds no
\* resolved binding, EndpointURL() is the empty string.
C9_EmptyUntilResolved ==
    (~crashed /\ lock = 0 /\ (FixedPort \notin DOMAIN pm \/ pm = PlaceholderPortMap))
        => EndpointURL = ""

\* C10 (as stated): a timeout error is returned at least T seconds and at
\* most T seconds plus one poll interval after the loop began.
C10_OvershootOnePoll ==
    \A c \in Callers :
        (pc[c] = "Start_ret" /\ res[c].kind = "timeout")
            => /\ elapsed[c] >= initTimeout * TicksPerSecond
               /\ elapsed[c] <= initTimeout * TicksPerSecond + PollIntervalTicks

\* C10 (amended): the timeout error carries T = initTimeout > 0, is returned
\* with started false and no marker seen, at least T seconds and at most T
\* seconds plus one loop iteration (one log fetch and one sleep) after the
\* loop began; a Start that waited and completed the sequence saw the marker.
C10_TimeoutWithinOneIteration ==
    \A c \in Callers :
        /\ (pc[c] = "Start_ret" /\ res[c].kind = "timeout")
              => /\ res[c].seconds = initTimeout /\ initTimeout > 0 /\ waitForInit
                 /\ ~started /\ ~sawMarker[c]
                 /\ elapsed[c] >= initTimeout * TicksPerSecond
                 /\ elapsed[c] <= initTimeout * TicksPerSecond + PollIntervalTicks + MaxLogDelay
        /\ (FullStart(c) /\ waitForInit) => sawMarker[c]

\* a timeout error was returned more than one poll interval after T
C10_Witness ==
    \E c \in Callers :
        /\ pc[c] = "Start_ret" /\ res[c] = TimeoutErr(MaxTimeout)
        /\ elapsed[c] > MaxTimeout * TicksPerSecond + PollIntervalTicks

\* C11: a poll counts as ready exactly when its log was fetched and read and
\* holds the configured marker ("Ready." when none is configured): Start
\* leaves the loop for the inspection on that poll and sleeps after every
\* other poll; once a poll found the marker the caller is never in the loop
\* again; and a Start that waits reaches the inspection, sets started and
\* returns nil from the end of the sequence only after a poll found the marker.
C11_MarkerDetection ==
    \A c \in Callers :
        LET marker == IF initCompleteLogLine = "" THEN "Ready." ELSE initCompleteLogLine
            found == /\ lastPoll[c].status = "read"
                     /\ \E i \in 1..Len(lastPoll[c].log) : lastPoll[c].log[i] = marker
        IN  /\ lastPoll[c].status # "none" =>
                  IF found
                  THEN pc[c] = "inspect" /\ sawMarker[c]
                  ELSE pc[c] = "poll_sleep" /\ ~sawMarker[c]
            /\ sawMarker[c] => pc[c] \notin {"poll_check", "poll_init", "poll_sleep"}
            /\ (waitForInit /\ pc[c] \in {"inspect", "set_started"}) => sawMarker[c]
            /\ (waitForInit /\ FullStart(c) /\ started) => sawMarker[c]

\* a Start that waits for a marker of its own has seen it in a poll, set
\* started and returned nil
C11_Witness ==
    \E c \in Callers :
        /\ FullStart(c) /\ waitForInit /\ initCompleteLogLine = "Started."
        /\ started /\ sawMarker[c]

\* the names of the runtime-client calls the caller has issued
CallNames(c) == {calls[c][i].name : i \in 1..Len(calls[c])}

\* C12: a Start that returns an error returns it with started false, and the
\* error names the step that failed, after which no further runtime call was
\* issued: none at all after a failed client construction, no ContainerCreate
\* (and nothing else) after a failed image list or pull, and the failed call
\* last for create, start, the readiness timeout and the inspection; a Start
\* returns nil only without any call, from the reuse branch of a failed
\* create, or after the inspection.
C12_FailureNotStarted ==
    \A c \in Callers :
        (op[c].kind = "Start" /\ pc[c] = "Start_ret") =>
            /\ res[c] # NoRes
            /\ res[c] # Nil => ~started
            /\ res[c].kind = "client" => calls[c] = <<>>
            /\ res[c].kind = "imagelist" => CallNames(c) = {"ImageList"}
            /\ res[c].kind \in {"imagepull", "drain"} => CallNames(c) = {"ImageList", "ImagePull"}
            /\ res[c].kind = "create" => LastCall(c).name = "ContainerCreate"
            /\ res[c].kind = "start" => LastCall(c).name = "ContainerStart"
            /\ res[c].kind = "timeout" => LastCall(c).name = "ContainerLogs"
            /\ res[c].kind = "inspect" => LastCall(c).name = "ContainerInspect"
            /\ res[c] = Nil =>
                  \/ calls[c] = <<>> /\ pre[c].started
                  \/ LastCall(c).name = "ContainerCreate" /\ reuseExisting
                  \/ LastCall(c).name = "ContainerInspect"

\* a second Start has failed to pull the image while the container of the
\* first is still there: no create call was issued and started is false
C12_Witness ==
    \E c \in Callers :
        /\ op[c].kind = "Start" /\ pc[c] = "Start_ret" /\ res[c] = Err("imagepull")
        /\ calls[c] = <<Call("ImageList", 0), Call("ImagePull", 0)>>
        /\ ~started /\ containerID # 0

\* the containers this Stack created that the runtime has not stopped
Unstopped == {i \in 1..Len(rt) : rt[i] # "stopped"}

\* C13: while no watcher is inside stop(), at most one container this Stack
\* created is un-stopped in the runtime, and it is the one containerID names.
C13_SingleOwnership ==
    ~WatcherInStop => (Cardinality(Unstopped) <= 1 /\ Unstopped \subseteq {containerID})

\* the watchers that have not returned
AliveWatchers == NumWatchers - watchers["done"]

\* C14: at most one watcher is alive at any time, and when the only Start
\* made so far returns an error it leaves no watcher behind.
C14_OneWatcherPerStart ==
    /\ AliveWatchers <= 1
    /\ \A c \in Callers :
          (op[c].kind = "Start" /\ pc[c] = "Start_ret" /\ res[c] # Nil /\ nStart = 1)
              => NumWatchers = 0

\* C15: a Start whose last runtime call is the create call has returned
\* because the create failed; with reuseExisting set and nil returned (the
\* name-in-use failure) started is false and containerID is empty, and
\* without reuseExisting the create error is what Start returns.
C15_ReuseRecordsNothing ==
    \A c \in Callers :
        (op[c].kind = "Start" /\ pc[c] = "Start_ret"
            /\ Len(calls[c]) > 0 /\ LastCall(c).name = "ContainerCreate")
            => /\ res[c] \in {Nil, Err("create")}
               /\ res[c] = Nil => (reuseExisting /\ ~started /\ containerID = 0)
               /\ ~reuseExisting => res[c] = Err("create")

\* C16: for a map of N container paths to host paths (the socket path may be
\* one of them), the list getVolumeMounts returns has N+1 entries; exactly
\* one entry is a read-write mount targeting /var/run/docker.sock; every
\* other entry is a read-only bind mount whose Target is a supplied container
\* path and whose Source is the host path supplied for it, no two of them for
\* the same pair.
C16_MountComposition ==
    mounts # <<>> =>
        LET socket == {i \in 1..Len(mounts) :
                          mounts[i].Target = "/var/run/docker.sock" /\ ~mounts[i].ReadOnly}
            others == (1..Len(mounts)) \ socket
        IN  /\ Len(mounts) = Cardinality(DOMAIN volumeMounts) + 1
            /\ Cardinality(socket) = 1
            /\ \A i \in others :
                  /\ mounts[i].Type = "bind" /\ mounts[i].ReadOnly
                  /\ mounts[i].Target \in DOMAIN volumeMounts
                  /\ mounts[i].Source = volumeMounts[mounts[i].Target]
            /\ \A i, j \in others : mounts[i].Target = mounts[j].Target => i = j

\* the list was built from two supplied pairs, one of them for the socket
\* path itself: two entries target the socket, one read-only, one read-write
C16_Witness ==
    /\ Len(mounts) = 3
    /\ "/var/run/docker.sock" \in DOMAIN volumeMounts
    /\ Cardinality({i \in 1..Len(mounts) : mounts[i].Target = "/var/run/docker.sock"}) = 2

\* C17: once the cancellation signal has fired and no Start or Stop is in
\* progress, a Stack that is started with its container running has a
\* watcher that has not returned yet (one that will stop the container).
C17_TeardownOnCancel ==
    (cancelled /\ ~crashed /\ lock = 0 /\ started
        /\ Known(containerID) /\ rt[containerID] = "running")
        => AliveWatchers > 0

\* C18: no caller is at an s.Lock() of Start or Stop while it holds the lock
\* itself.
C18_NoRecursiveLock ==
    \A c \in Callers : pc[c] \in {"Start_lock", "Stop_lock"} => lock # c

\* C19: no Start ends in a panic: when the inspection reports no binding for
\* 4566/tcp the caller is not left in the index-out-of-range panic of
\* bindings[0].
C19_ZeroBindingsNoCrash ==
    \A c \in Callers : ~(op[c].kind = "Start" /\ pc[c] = "panic" /\ crashed)

\* C20: every step of the readiness loop leaves the result of Start unset,
\* except the timeout test at the top of the loop, which alone can end the
\* loop with an error, the timeout error, and only when initTimeout > 0 and
\* more than initTimeout seconds have passed; a poll whose log fetch or read
\* failed is followed by the sleep, a poll that read the marker by the
\* inspection, the sleep by the timeout test, and the timeout test that does
\* not fire by the next poll.
C20_SoftFailures ==
    [][\A c \in Callers :
          Steps(c) =>
              /\ pc[c] = "poll_init" =>
                    /\ res'[c] = NoRes
                    /\ lastPoll'[c].status \in {"fetch_err", "read_err", "read"}
                    /\ lastPoll'[c].status \in {"fetch_err", "read_err"} => pc'[c] = "poll_sleep"
                    /\ pc'[c] \in {"poll_sleep", "inspect"}
                    /\ pc'[c] = "inspect" <=>
                          /\ lastPoll'[c].status = "read"
                          /\ \E i \in 1..Len(lastPoll'[c].log) :
                                lastPoll'[c].log[i] =
                                    IF initCompleteLogLine = "" THEN "Ready." ELSE initCompleteLogLine
              /\ pc[c] = "poll_sleep" => (pc'[c] = "poll_check" /\ res'[c] = NoRes)
              /\ pc[c] = "poll_check" =>
                    \/ pc'[c] = "poll_init" /\ res'[c] = NoRes
                    \/ /\ pc'[c] = "Start_ret" /\ res'[c] = TimeoutErr(initTimeout)
                       /\ initTimeout > 0 /\ elapsed[c] > initTimeout * TicksPerSecond]_vars

\* a poll after at least one sleep failed to fetch the log again and the
\* loop goes on: nothing is returned and the next step is the sleep
C20_Witness ==
    \E c \in Callers :
        /\ pc[c] = "poll_sleep" /\ lastPoll[c] = Poll("fetch_err", <<>>)
        /\ res[c] = NoRes /\ elapsed[c] > MaxLogDelay /\ ~cancelled

====
